---- MODULE Spec2Model ----
(***************************************************************************)
(* Model of the position state machine of the Fibonacci trading bot:       *)
(* src/fibonacci_monitors/position_manager.py (class PositionManager).     *)
(*                                                                         *)
(* Prices are non-negative integers (price ticks).  Python float results   *)
(* (pnl, r_multiple, total_r) are modelled as exact rationals <<n, d>>     *)
(* with d > 0 in lowest terms; floating-point rounding is not modelled.    *)
(* Optional fields hold <<>> for None and <<v>> for a value v.             *)
(* Position fields that no decision reads (position_size, setup_monitor,   *)
(* fib_level) and the Discord alerts, whose failures are swallowed by the  *)
(* send_* methods, are left out.                                           *)
(***************************************************************************)
EXTENDS Integers, Sequences, FiniteSets, TLC

\* ---- bounds ----
MaxPrice == 2
MaxTime == 1
MaxPositions == 2
MaxTrades == 2

Prices == 0..MaxPrice
Times == 0..MaxTime
Symbols == {"BTCUSDT"}
Timeframes == {"1h"}

\* ---- enums ----
PositionStatus == {"PENDING", "ACTIVE", "CLOSED", "CANCELLED"}
ExitReason == {"TP1_HIT", "TP2_HIT", "TP3_HIT", "SL_HIT", "MANUAL"}
SetupTypes == {"LONG", "SHORT"}
None == <<>>
Some(v) == <<v>>

\* ---- rational arithmetic standing for Python float arithmetic ----
Abs(x) == IF x < 0 THEN -x ELSE x

RECURSIVE GCD(_, _)
GCD(a, b) == IF b = 0 THEN a ELSE GCD(b, a % b)

\* n / d for d # 0, in lowest terms with a positive denominator
Rat(n, d) ==
  LET g == GCD(Abs(n), Abs(d))
      s == IF d < 0 THEN -1 ELSE 1
  IN  <<(s * n) \div g, (s * d) \div g>>

RatDiv(a, b) == Rat(a[1] * b[2], a[2] * b[1])
RatAdd(a, b) == Rat(a[1] * b[2] + b[1] * a[2], a[2] * b[2])
RatPos(a) == a[1] > 0
Zero == <<0, 1>>

VARIABLES positions, total_r, win_count, loss_count, total_trades, now, last,
          last_alert_time

vars == <<positions, total_r, win_count, loss_count, total_trades, now, last,
         last_alert_time>>
stats == <<total_r, win_count, loss_count, total_trades>>

\* the clock and the monitors' own state, which no PositionManager call touches
clock == <<now, last_alert_time>>

AllIds == Symbols \X Timeframes \X SetupTypes \X Times

\* keys open_position reads with [] from detection_result and its sub-dicts
RequiredKeys == {"symbol", "timeframe", "current_price", "trading_levels",
                 "fibonacci_levels", "0.618", "entry", "tp1", "tp2", "tp3", "sl"}

\* a detection result: `missing` names an absent key ("none": all present)
DetectionResult(sym, tf, trend, price, fib, entry, t1, t2, t3, stop, miss) ==
  [symbol |-> sym, timeframe |-> tf, trend |-> trend, current_price |-> price,
   fib618 |-> fib, entry |-> entry, tp1 |-> t1, tp2 |-> t2, tp3 |-> t3,
   sl |-> stop, missing |-> miss]

\* the monitors that watch one symbol on different timeframes and share one
\* PositionManager
MonitorNames == {"BTC-5M-Standard", "BTC-15M-Standard"}
MonitorConfig(name) == [name |-> name, symbol |-> "BTCUSDT"]

\* everything that keeps a last_alert_time: the monitors and the bot of main.py
AlertSources == MonitorNames \cup {"FibonacciBot"}

\* PositionManager.__init__ and the monitors' __init__
Init ==
  /\ last_alert_time = [name \in AlertSources |-> None]
  /\ positions = <<>>
  /\ total_r = Zero
  /\ win_count = 0
  /\ loss_count = 0
  /\ total_trades = 0
  /\ now = 0
  /\ last = [op |-> "init", ret |-> "None"]

\* PositionManager.create_position_id: the timestamp has one-second resolution
create_position_id(symbol, timeframe, setup_type) ==
  <<symbol, timeframe, setup_type, now>>

\* a Position built with tp1 and tp3 taken from each other's key
PositionSwappedTargets(id, symbol, timeframe, setup_type, entry_price, tp1, tp2, tp3, sl) ==
  [id |-> id, symbol |-> symbol, timeframe |-> timeframe,
   setup_type |-> setup_type, entry_price |-> entry_price,
   tp1 |-> tp3, tp2 |-> tp2, tp3 |-> tp1, sl |-> sl,
   status |-> "PENDING", entry_time |-> None, exit_time |-> None,
   exit_price |-> None, exit_reason |-> "None", pnl |-> None,
   r_multiple |-> None]

\* the Position dataclass with its defaults
Position(id, symbol, timeframe, setup_type, entry_price, tp1, tp2, tp3, sl) ==
  [id |-> id, symbol |-> symbol, timeframe |-> timeframe,
   setup_type |-> setup_type, entry_price |-> entry_price,
   tp1 |-> tp1, tp2 |-> tp2, tp3 |-> tp3, sl |-> sl,
   status |-> "PENDING", entry_time |-> None, exit_time |-> None,
   exit_price |-> None, exit_reason |-> "None", pnl |-> None,
   r_multiple |-> None]

\* dict assignment self.positions[k] = v
Store(k, v) == [i \in DOMAIN positions \cup {k} |->
                  IF i = k THEN v ELSE positions[i]]

\* open_position: line 88
OpenSetupType(d) == IF d.current_price <= d.fib618 THEN "LONG" ELSE "SHORT"

\* PositionManager.open_position
open_position(d) ==
  /\ IF d.missing # "none"
       THEN \* KeyError, caught by the except clause
            /\ last' = [op |-> "open_position", ret |-> "None"]
            /\ UNCHANGED positions
       ELSE LET setup_type == OpenSetupType(d)
                position_id == create_position_id(d.symbol, d.timeframe, setup_type)
                position == Position(position_id, d.symbol, d.timeframe,
                                     setup_type, d.entry, d.tp1, d.tp2, d.tp3, d.sl)
            IN  /\ last' = [op |-> "open_position", ret |-> "id"]
                /\ positions' = Store(position_id, position)
  /\ UNCHANGED <<stats, clock>>

\* check_position_status with the nearest target tested first
CheckResultNearestFirst(position_id, current_price) ==
  IF position_id \notin DOMAIN positions
       \/ positions[position_id].status # "ACTIVE"
  THEN "None"
  ELSE LET position == positions[position_id] IN
       IF position.setup_type = "LONG"
       THEN IF current_price >= position.tp1 THEN "TP1_HIT"
            ELSE IF current_price >= position.tp2 THEN "TP2_HIT"
            ELSE IF current_price >= position.tp3 THEN "TP3_HIT"
            ELSE IF current_price <= position.sl THEN "SL_HIT"
            ELSE "None"
       ELSE IF current_price <= position.tp1 THEN "TP1_HIT"
            ELSE IF current_price <= position.tp2 THEN "TP2_HIT"
            ELSE IF current_price <= position.tp3 THEN "TP3_HIT"
            ELSE IF current_price >= position.sl THEN "SL_HIT"
            ELSE "None"

\* the result of PositionManager.check_position_status
CheckResult(position_id, current_price) ==
  IF position_id \notin DOMAIN positions
       \/ positions[position_id].status # "ACTIVE"
  THEN "None"
  ELSE LET position == positions[position_id] IN
       IF position.setup_type = "LONG"
       THEN IF current_price >= position.tp3 THEN "TP3_HIT"
            ELSE IF current_price >= position.tp2 THEN "TP2_HIT"
            ELSE IF current_price >= position.tp1 THEN "TP1_HIT"
            ELSE IF current_price <= position.sl THEN "SL_HIT"
            ELSE "None"
       ELSE IF current_price <= position.tp3 THEN "TP3_HIT"
            ELSE IF current_price <= position.tp2 THEN "TP2_HIT"
            ELSE IF current_price <= position.tp1 THEN "TP1_HIT"
            ELSE IF current_price >= position.sl THEN "SL_HIT"
            ELSE "None"

\* PositionManager.check_position_status
check_position_status(position_id, current_price) ==
  /\ last' = [op |-> "check_position_status", ret |-> CheckResult(position_id, current_price)]
  /\ UNCHANGED <<positions, stats, clock>>

\* the P&L computed with the LONG formula for both directions
ClosePnlLongOnly(position, exit_price) ==
  <<Rat(exit_price - position.entry_price, position.entry_price),
    Rat(Abs(position.entry_price - position.sl), position.entry_price)>>

\* close_position lines 167-172: <<pnl, r_risk>>
ClosePnl(position, exit_price) ==
  IF position.setup_type = "LONG"
  THEN <<Rat(exit_price - position.entry_price, position.entry_price),
         Rat(position.entry_price - position.sl, position.entry_price)>>
  ELSE <<Rat(position.entry_price - exit_price, position.entry_price),
         Rat(position.sl - position.entry_price, position.entry_price)>>

\* close_position line 175
RMultiple(pnl, r_risk) == IF RatPos(r_risk) THEN RatDiv(pnl, r_risk) ELSE Zero

\* a break-even trade counted as a win
IsWinOrEven(r_multiple) == r_multiple[1] >= 0

\* close_position line 181
IsWin(r_multiple) == RatPos(r_multiple)

\* PositionManager.close_position
close_position(position_id, exit_price, exit_reason) ==
  /\ UNCHANGED clock
  /\ IF position_id \notin DOMAIN positions
     THEN /\ last' = [op |-> "close_position", ret |-> "False"]
          /\ UNCHANGED <<positions, stats>>
     ELSE LET marked == [positions[position_id] EXCEPT
                           !.status = "CLOSED", !.exit_time = Some(now),
                           !.exit_price = Some(exit_price),
                           !.exit_reason = exit_reason]
          IN IF marked.entry_price = 0
             THEN \* ZeroDivisionError after the position was marked CLOSED
                  /\ positions' = [positions EXCEPT ![position_id] = marked]
                  /\ last' = [op |-> "close_position", ret |-> "False"]
                  /\ UNCHANGED stats
             ELSE LET pr == ClosePnl(marked, exit_price)
                      r == RMultiple(pr[1], pr[2])
                  IN /\ positions' = [positions EXCEPT ![position_id] =
                                        [marked EXCEPT !.pnl = Some(pr[1]),
                                                       !.r_multiple = Some(r)]]
                     /\ total_r' = RatAdd(total_r, r)
                     /\ total_trades' = total_trades + 1
                     /\ IF IsWin(r)
                        THEN win_count' = win_count + 1 /\ UNCHANGED loss_count
                        ELSE loss_count' = loss_count + 1 /\ UNCHANGED win_count
                     /\ last' = [op |-> "close_position", ret |-> "True"]

\* activation that only refuses CLOSED positions
CanActivateUnlessClosed(position_id) ==
  /\ position_id \in DOMAIN positions
  /\ positions[position_id].status # "CLOSED"

\* activate_position line 200
CanActivate(position_id) ==
  /\ position_id \in DOMAIN positions
  /\ positions[position_id].status = "PENDING"

\* PositionManager.activate_position
activate_position(position_id) ==
  /\ IF CanActivate(position_id)
     THEN /\ positions' = [positions EXCEPT
                             ![position_id].status = "ACTIVE",
                             ![position_id].entry_time = Some(now)]
          /\ last' = [op |-> "activate_position", ret |-> "True"]
     ELSE /\ last' = [op |-> "activate_position", ret |-> "False"]
          /\ UNCHANGED positions
  /\ UNCHANGED <<stats, clock>>

\* PositionManager.get_active_positions (as the set of their ids)
get_active_positions == {i \in DOMAIN positions : positions[i].status = "ACTIVE"}

\* PositionManager.get_pending_positions
get_pending_positions == {i \in DOMAIN positions : positions[i].status = "PENDING"}

\* the read operations, which return a view and assign nothing
read_positions ==
  /\ last' = [op |-> "read", ret |-> IF get_active_positions = {} /\ get_pending_positions = {}
                      THEN "empty" ELSE "some"]
  /\ UNCHANGED <<positions, stats, clock>>

\* datetime.now() moves to the next second
Tick ==
  /\ now < MaxTime
  /\ now' = now + 1
  /\ UNCHANGED <<positions, stats, last, last_alert_time>>

\* ---- inputs ----
Trends == {"UP", "DOWN"}

\* the exit reasons the callers pass in these runs
CloseReasons == {"TP1_HIT", "SL_HIT"}

\* both detectors set trading_levels['entry'] to the current price
Setup(trend, price, fib, t1, t2, t3, stop) ==
  DetectionResult("BTCUSDT", "1h", trend, price, fib, price, t1, t2, t3, stop, "none")

\* entry 1 with the 61.8% level below or at the price: one SHORT-shaped and
\* one LONG-shaped setup, under either trend label
NarrowSetups ==
  {Setup(trend, 1, f, IF 1 <= f THEN MaxPrice ELSE 0,
         IF 1 <= f THEN MaxPrice ELSE 0, IF 1 <= f THEN MaxPrice ELSE 0,
         IF 1 <= f THEN 0 ELSE MaxPrice) :
     trend \in Trends, f \in 0..1}

\* every entry and stop, the 61.8% level at the price (LONG) or one tick
\* below it (SHORT)
PnlSetups ==
  {Setup("UP", p, p - b, MaxPrice, MaxPrice, MaxPrice, stop) :
     p \in Prices, b \in 0..1, stop \in Prices}

\* every combination of entry, targets and stop, for both directions
WideSetups ==
  {Setup("UP", p, p - b, t1, t2, t3, stop) :
     p \in Prices, b \in 0..1, t1 \in Prices, t2 \in Prices, t3 \in Prices,
     stop \in Prices}

\* a detection result with a required key absent
MalformedSetups ==
  {DetectionResult("BTCUSDT", "1h", "UP", 0, 0, 0, 0, 0, 0, 0, k) : k \in RequiredKeys}

\* the caller keeps at most cap positions in the store
Room(d, cap) ==
  \/ d.missing # "none"
  \/ Cardinality(DOMAIN positions) < cap
  \/ create_position_id(d.symbol, d.timeframe, OpenSetupType(d)) \in DOMAIN positions

Open(S, cap) == \E d \in S \cup MalformedSetups : Room(d, cap) /\ open_position(d)

\* the caller opens a single position, into an empty store
OpenFirst(S) ==
  /\ DOMAIN positions = {}
  /\ \E d \in S \cup MalformedSetups : open_position(d)
Activate == \E i \in AllIds : activate_position(i)
Check == \E i \in AllIds, p \in Prices : check_position_status(i, p)
Close == \E i \in AllIds, p \in Prices, r \in CloseReasons :
           total_trades < MaxTrades /\ close_position(i, p, r)

\* several positions, two level combinations
Next ==
  \/ Open(NarrowSetups, MaxPositions)
  \/ Activate
  \/ Check
  \/ Close
  \/ read_positions
  \/ Tick

Spec == Init /\ [][Next]_vars

\* one position, every entry and stop
NextPnl ==
  \/ OpenFirst(PnlSetups)
  \/ Activate
  \/ Check
  \/ Close
  \/ read_positions
  \/ Tick

SpecPnl == Init /\ [][NextPnl]_vars

\* one position that stays open, every combination of levels
NextLevels ==
  \/ OpenFirst(WideSetups)
  \/ Activate
  \/ Check
  \/ read_positions
  \/ Tick

SpecLevels == Init /\ [][NextLevels]_vars

TypeOK ==
  /\ DOMAIN positions \subseteq AllIds
  /\ \A i \in DOMAIN positions : positions[i].status \in PositionStatus
  /\ total_trades \in 0..MaxTrades

\* ---- claims ----
\* the step is a call of op (the clock does not move during a call)
Did(op) == now' = now /\ last'.op = op
AllowedEdges == {<<"PENDING", "ACTIVE">>, <<"ACTIVE", "CLOSED">>,
                 <<"PENDING", "CANCELLED">>}

\* C1: a position's status changes only along PENDING->ACTIVE, ACTIVE->CLOSED
\* and PENDING->CANCELLED, and close_position leaves every position that is
\* not ACTIVE unchanged.
C1_OnlyLegalTransitions ==
  [][\A i \in DOMAIN positions \cap DOMAIN positions' :
       /\ \/ positions'[i].status = positions[i].status
          \/ <<positions[i].status, positions'[i].status>> \in AllowedEdges
       /\ (Did("close_position") /\ positions[i].status # "ACTIVE")
             => positions'[i] = positions[i]]_vars

ClosedIds == {i \in DOMAIN positions : positions[i].status = "CLOSED"}

\* C2: total_trades equals the number of stored positions whose status is
\* CLOSED.
C2_TradesEqualClosed == total_trades = Cardinality(ClosedIds)

\* what the claim of C3 prescribes for an ACTIVE position and a price
TargetsHit(position, price) ==
  {k \in 1..3 :
     LET tp == IF k = 1 THEN position.tp1
               ELSE IF k = 2 THEN position.tp2 ELSE position.tp3
     IN  IF position.setup_type = "LONG" THEN price >= tp ELSE price <= tp}

StopHit(position, price) ==
  IF position.setup_type = "LONG" THEN price <= position.sl
  ELSE price >= position.sl

Prescribed(position, price) ==
  IF 3 \in TargetsHit(position, price) THEN "TP3_HIT"
  ELSE IF 2 \in TargetsHit(position, price) THEN "TP2_HIT"
  ELSE IF 1 \in TargetsHit(position, price) THEN "TP1_HIT"
  ELSE IF StopHit(position, price) THEN "SL_HIT"
  ELSE "None"

\* C3: for an ACTIVE position check_position_status reports the
\* highest-numbered target the price has reached (>= for LONG, <= for SHORT),
\* otherwise SL_HIT if the price is at or beyond the stop, otherwise None.
C3_CheckReportsFurthestTarget ==
  [][Did("check_position_status") => \A i \in DOMAIN positions, p \in Prices :
       (positions[i].status = "ACTIVE" /\ check_position_status(i, p))
          => last'.ret = Prescribed(positions[i], p)]_vars

\* an ACTIVE LONG position with tp1 < tp2 < tp3 for which the check reported
\* TP2_HIT: the price had reached TP1 and TP2 at once
C3_Witness ==
  /\ last.op = "check_position_status"
  /\ last.ret = "TP2_HIT"
  /\ \E i \in DOMAIN positions :
       /\ positions[i].status = "ACTIVE"
       /\ positions[i].setup_type = "LONG"
       /\ positions[i].tp1 < positions[i].tp2
       /\ positions[i].tp2 < positions[i].tp3

TrendDirection(trend) == IF trend = "UP" THEN "LONG" ELSE "SHORT"

\* C4: the position opened from a setup is LONG exactly when the setup's
\* trend is UP and SHORT exactly when it is DOWN, wherever the price lies
\* relative to the 61.8% level.
C4_DirectionFollowsTrend ==
  [][Did("open_position") => \A d \in NarrowSetups :
       open_position(d) =>
         \A i \in DOMAIN positions' :
           (i \notin DOMAIN positions \/ positions'[i] # positions[i])
              => positions'[i].setup_type = TrendDirection(d.trend)]_vars

\* C5: every successful open_position adds exactly one position to the store
\* and replaces none that is already stored.
C5_UniqueIds ==
  [][(Did("open_position") /\ last'.ret = "id") =>
       /\ Cardinality(DOMAIN positions') = Cardinality(DOMAIN positions) + 1
       /\ \A i \in DOMAIN positions : positions'[i] = positions[i]]_vars

\* +1 for LONG, -1 for SHORT
Sign(position) == IF position.setup_type = "LONG" THEN 1 ELSE -1

\* C6: a successful close_position sets pnl to (exit - entry)/entry for LONG
\* and (entry - exit)/entry for SHORT; when the stop is on the losing side of
\* the entry, pnl and r_multiple are both > 0 for an exit on the winning side
\* of the entry and both < 0 for an exit on the losing side.
C6_PnlFormulaAndSign ==
  [][(Did("close_position") /\ last'.ret = "True") =>
     \A i \in DOMAIN positions, x \in Prices, reason \in CloseReasons :
       close_position(i, x, reason) =>
         LET q == positions'[i]
             e == q.entry_price
             gain == Sign(q) * (x - e)
             stopDist == Sign(q) * (e - q.sl)
         IN  /\ q.pnl # None /\ q.r_multiple # None
             /\ q.pnl[1][2] > 0
             /\ q.pnl[1][1] * e = gain * q.pnl[1][2]
             /\ (stopDist > 0 /\ gain > 0)
                  => (q.pnl[1][1] > 0 /\ q.r_multiple[1][1] > 0)
             /\ (stopDist > 0 /\ gain < 0)
                  => (q.pnl[1][1] < 0 /\ q.r_multiple[1][1] < 0)]_vars

\* a SHORT position with its stop above the entry, closed below the entry
\* with a positive pnl and r_multiple
C6_Witness ==
  /\ last = [op |-> "close_position", ret |-> "True"]
  /\ \E i \in DOMAIN positions :
       /\ positions[i].setup_type = "SHORT"
       /\ positions[i].status = "CLOSED"
       /\ positions[i].sl > positions[i].entry_price
       /\ positions[i].exit_price # None
       /\ positions[i].exit_price[1] < positions[i].entry_price
       /\ positions[i].pnl # None
       /\ positions[i].pnl[1][1] > 0
       /\ positions[i].r_multiple[1][1] > 0

\* C7: a successful close_position sets r_multiple = pnl / r_risk with
\* r_risk = |entry - stop| / entry whenever the stop differs from the entry,
\* on whichever side of the entry the stop lies.
C7_RiskIsAbsolute ==
  [][(Did("close_position") /\ last'.ret = "True") =>
     \A i \in DOMAIN positions, x \in Prices, reason \in CloseReasons :
       close_position(i, x, reason) =>
         LET q == positions'[i]
             e == q.entry_price
             risk == Abs(e - q.sl)
         IN  risk # 0 =>
               q.r_multiple[1][1] * risk = Sign(q) * (x - e) * q.r_multiple[1][2]]_vars

\* C8: a successful close_position adds 1 to total_trades, adds 1 to
\* win_count if r_multiple > 0 and otherwise 1 to loss_count, and adds
\* r_multiple to total_r; open_position, activate_position,
\* check_position_status and the reads leave the four counters unchanged.
C8_CountersFollowCloses ==
  [][/\ (Did("close_position") /\ last'.ret = "True") =>
        \A i \in DOMAIN positions, x \in Prices, reason \in CloseReasons :
          close_position(i, x, reason) =>
            LET r == positions'[i].r_multiple[1] IN
            /\ total_trades' = total_trades + 1
            /\ r[1] > 0 => (win_count' = win_count + 1 /\ loss_count' = loss_count)
            /\ r[1] <= 0 => (loss_count' = loss_count + 1 /\ win_count' = win_count)
            /\ total_r'[1] * total_r[2] * r[2]
                 = (total_r[1] * r[2] + r[1] * total_r[2]) * total_r'[2]
     /\ (Did("open_position") \/ Did("activate_position")
           \/ Did("check_position_status") \/ Did("read"))
          => stats' = stats]_vars

\* a close that just succeeded with one win and one loss counted, the loss
\* being a position whose r_multiple is exactly 0
C8_Witness ==
  /\ last = [op |-> "close_position", ret |-> "True"]
  /\ win_count = 1
  /\ loss_count = 1
  /\ total_trades = 2
  /\ \E i \in DOMAIN positions : positions[i].r_multiple = Some(Zero)
  /\ \E i \in DOMAIN positions :
       positions[i].r_multiple # None /\ positions[i].r_multiple[1][1] > 0

\* C9: activate_position returns True, sets ACTIVE and stamps entry_time
\* exactly when the position exists and is PENDING; otherwise it returns False
\* and changes no position and no counter.
C9_ActivateOnlyPending ==
  [][Did("activate_position") => \A i \in AllIds :
       activate_position(i) =>
         IF i \in DOMAIN positions /\ positions[i].status = "PENDING"
         THEN /\ last'.ret = "True"
              /\ positions'[i].status = "ACTIVE"
              /\ positions'[i].entry_time = Some(now)
              /\ stats' = stats
         ELSE /\ last'.ret = "False"
              /\ positions' = positions
              /\ stats' = stats]_vars

\* activate_position has just been refused while an ACTIVE position, stamped
\* by an earlier activation, and a CLOSED one are stored
C9_Witness ==
  /\ last = [op |-> "activate_position", ret |-> "False"]
  /\ \E i \in DOMAIN positions :
       positions[i].status = "ACTIVE" /\ positions[i].entry_time # None
  /\ \E i \in DOMAIN positions : positions[i].status = "CLOSED"

\* C10: a successful open_position stores a new PENDING position with the
\* setup's entry, tp1, tp2, tp3 and sl and with entry_time, exit_time,
\* exit_price, exit_reason, pnl and r_multiple unset; with a required key
\* missing it returns None and stores nothing.
C10_OpenStoresPendingCopy ==
  [][Did("open_position") => \A d \in WideSetups \cup MalformedSetups :
       open_position(d) =>
         IF d.missing = "none"
         THEN /\ last'.ret = "id"
              /\ \E i \in DOMAIN positions' \ DOMAIN positions :
                   LET q == positions'[i] IN
                   /\ q.status = "PENDING"
                   /\ q.entry_price = d.entry /\ q.sl = d.sl
                   /\ q.tp1 = d.tp1 /\ q.tp2 = d.tp2 /\ q.tp3 = d.tp3
                   /\ q.entry_time = None /\ q.exit_time = None
                   /\ q.exit_price = None /\ q.exit_reason = "None"
                   /\ q.pnl = None /\ q.r_multiple = None
         ELSE /\ last'.ret = "None"
              /\ positions' = positions]_vars

\* a position just opened, still PENDING with nothing stamped, whose three
\* targets and stop all differ from its entry
C10_Witness ==
  /\ last = [op |-> "open_position", ret |-> "id"]
  /\ \E i \in DOMAIN positions :
       /\ positions[i].status = "PENDING"
       /\ positions[i].tp1 < positions[i].tp2
       /\ positions[i].tp2 < positions[i].tp3
       /\ positions[i].sl # positions[i].entry_price
       /\ positions[i].pnl = None

\* ======================================================================
\* The detectors: src/fibonacci_monitors/fibonacci_detector.py and the
\* older src/fibonacci_detector.py (definitions suffixed _root).  They are
\* pure functions of their arguments; a call is recorded in `last` with its
\* arguments and result, the position store staying as constructed.
\* Prices are integers in ticks of 0.0001, the grain of round(x, 4); real
\* results are exact rationals <<n, d>>.
\* ======================================================================
MaxSwing == 6

RatMul(a, b) == Rat(a[1] * b[1], a[2] * b[2])
RatSub(a, b) == Rat(a[1] * b[2] - b[1] * a[2], a[2] * b[2])
RatAbs(a) == <<Abs(a[1]), a[2]>>
RatLt(a, b) == a[1] * b[2] < b[1] * a[2]
RatLe(a, b) == a[1] * b[2] <= b[1] * a[2]
Int2Rat(n) == <<n, 1>>

\* the keys of FIBONACCI_LEVELS and the float each one stands for
FibKeys == {"0.0", "0.236", "0.382", "0.5", "0.618", "0.786", "1.0"}
FibOrder == <<"0.0", "0.236", "0.382", "0.5", "0.618", "0.786", "1.0">>
FibRatio(k) ==
  CASE k = "0.0" -> <<0, 1>>
    [] k = "0.236" -> <<59, 250>>
    [] k = "0.382" -> <<191, 500>>
    [] k = "0.5" -> <<1, 2>>
    [] k = "0.618" -> <<309, 500>>
    [] k = "0.786" -> <<393, 500>>
    [] k = "1.0" -> <<1, 1>>

\* the labels a caller passes as trend: identify_trend_structure returns the
\* first three, the legacy result dict and the test scripts use the last two
TrendLabels == {"UPTREND", "DOWNTREND", "SIDEWAYS", "UP", "DOWN"}

\* calculate_fibonacci_levels measuring every retracement up from the low
FibLevelsFromLow(swing_high, swing_low, trend) ==
  LET price_range == Abs(swing_high - swing_low) IN
  [k \in FibKeys |->
     IF k = "0.0" THEN Int2Rat(swing_high)
     ELSE IF k = "1.0" THEN Int2Rat(swing_low)
     ELSE RatAdd(Int2Rat(swing_low), RatMul(FibRatio(k), Int2Rat(price_range)))]

\* FibonacciDetector.calculate_fibonacci_levels (fibonacci_monitors)
calculate_fibonacci_levels(swing_high, swing_low, trend) ==
  LET price_range == Abs(swing_high - swing_low) IN
  IF trend = "DOWNTREND"
  THEN [k \in FibKeys |->
          IF k = "0.0" THEN Int2Rat(swing_high)
          ELSE IF k = "1.0" THEN Int2Rat(swing_low)
          ELSE RatAdd(Int2Rat(swing_low),
                      RatMul(FibRatio(k), Int2Rat(price_range)))]
  ELSE [k \in FibKeys |->
          IF k = "0.0" THEN Int2Rat(swing_low)
          ELSE IF k = "1.0" THEN Int2Rat(swing_high)
          ELSE RatSub(Int2Rat(swing_high),
                      RatMul(FibRatio(k), Int2Rat(price_range)))]

\* FibonacciDetector.calculate_fibonacci_levels (root detector)
calculate_fibonacci_levels_root(swing_high, swing_low) ==
  LET diff == swing_high - swing_low IN
  [k \in FibKeys |->
     IF k = "0.0" THEN Int2Rat(swing_low)
     ELSE IF k = "1.0" THEN Int2Rat(swing_high)
     ELSE RatSub(Int2Rat(swing_high), RatMul(Int2Rat(diff), FibRatio(k)))]

\* The functions keep no state and leave the position manager alone, so a
\* behaviour makes one call and every call starts from the same state.
\* the swings handed to the calculators: low >= 1 tick, high >= low
SwingPairs == {hl \in (1..MaxSwing) \X (1..MaxSwing) : hl[1] >= hl[2]}

FibCall ==
  /\ last.op = "init"
  /\ \E hl \in SwingPairs, trend \in TrendLabels :
       /\ last' = [op |-> "calculate_fibonacci_levels",
                  arg |-> [swing_high |-> hl[1], swing_low |-> hl[2], trend |-> trend],
                  ret |-> calculate_fibonacci_levels(hl[1], hl[2], trend)]
       /\ UNCHANGED <<positions, stats, clock>>

FibRootCall ==
  /\ last.op = "init"
  /\ \E hl \in SwingPairs :
       /\ last' = [op |-> "calculate_fibonacci_levels_root",
                  arg |-> [swing_high |-> hl[1], swing_low |-> hl[2], trend |-> "none"],
                  ret |-> calculate_fibonacci_levels_root(hl[1], hl[2])]
       /\ UNCHANGED <<positions, stats, clock>>

NextFib == FibCall \/ FibRootCall

SpecFib == Init /\ [][NextFib]_vars

IsFibCall == last.op \in {"calculate_fibonacci_levels", "calculate_fibonacci_levels_root"}

StrictlyIncreasing(levels) ==
  \A j \in 1..6 : RatLt(levels[FibOrder[j]], levels[FibOrder[j + 1]])
StrictlyDecreasing(levels) ==
  \A j \in 1..6 : RatLt(levels[FibOrder[j + 1]], levels[FibOrder[j]])

\* C13: for every swing with high > low and every trend the seven levels are
\* strictly monotonic in the ratio, end points included.
C13_LevelsMonotonic ==
  (IsFibCall /\ last.arg.swing_high > last.arg.swing_low)
    => (StrictlyIncreasing(last.ret) \/ StrictlyDecreasing(last.ret))

UpLabels == {"UPTREND", "UP"}
DownLabels == {"DOWNTREND", "DOWN"}

\* C14: level[0.0] is the price where the primary move ended (the swing high
\* for an up trend, the swing low for a down trend) and level[1.0] the price
\* where it began.
C14_ZeroAtMoveEnd ==
  last.op = "calculate_fibonacci_levels" =>
    /\ last.arg.trend \in UpLabels =>
         /\ last.ret["0.0"] = Int2Rat(last.arg.swing_high)
         /\ last.ret["1.0"] = Int2Rat(last.arg.swing_low)
    /\ last.arg.trend \in DownLabels =>
         /\ last.ret["0.0"] = Int2Rat(last.arg.swing_low)
         /\ last.ret["1.0"] = Int2Rat(last.arg.swing_high)

\* C15: with the label "DOWN" the result has 0% = swing high and 100% = swing
\* low, with the label "UP" it has 0% = swing low and 100% = swing high.
C15_LabelsUpDown ==
  last.op = "calculate_fibonacci_levels" =>
    /\ last.arg.trend = "DOWN" =>
         /\ last.ret["0.0"] = Int2Rat(last.arg.swing_high)
         /\ last.ret["1.0"] = Int2Rat(last.arg.swing_low)
    /\ last.arg.trend = "UP" =>
         /\ last.ret["0.0"] = Int2Rat(last.arg.swing_low)
         /\ last.ret["1.0"] = Int2Rat(last.arg.swing_high)

\* ----------------------------------------------------------------------
\* Trading levels and the detection gates (fibonacci_monitors detector).
\* ----------------------------------------------------------------------
TicksPerUnit == 10000
MinDataBars == 100
MaxOffset == 4
GateSpan == 3

RatMin(a, b) == IF RatLe(a, b) THEN a ELSE b
RatMax(a, b) == IF RatLe(a, b) THEN b ELSE a

\* round(x, 0) of an exact rational: nearest integer, ties to even
Round(x) ==
  LET q == x[1] \div x[2]
      r == x[1] % x[2]
  IN  IF 2 * r < x[2] THEN q
      ELSE IF 2 * r > x[2] THEN q + 1
      ELSE IF q % 2 = 0 THEN q ELSE q + 1

\* round(x, 4) of a price in ticks of 0.0001, and round(x, 2) of a ratio,
\* the latter kept in hundredths
Round4(x) == Round(x)
Round2(x) == Round(<<x[1] * (100 \div GCD(100, x[2])), x[2] \div GCD(100, x[2])>>)

\* `if atr:` -- None and 0.0 are both falsy
Truthy(atr) == atr # None /\ atr[1] # 0

\* calculate_trading_levels with the stop on the 78.6% level itself
TradingLevelsStopOnLevel(fib_levels, current_price, setup_type, atr) ==
  LET entry == Int2Rat(current_price)
      tp1 == fib_levels["0.5"]
      tp2 == fib_levels["0.382"]
      tp3 == fib_levels["0.236"]
      sl == fib_levels["0.786"]
      risk == RatAbs(RatSub(entry, sl))
      reward1 == RatAbs(RatSub(tp1, entry))
      reward2 == RatAbs(RatSub(tp2, entry))
      reward3 == RatAbs(RatSub(tp3, entry))
      rr1 == IF RatPos(risk) THEN RatDiv(reward1, risk) ELSE Zero
      rr2 == IF RatPos(risk) THEN RatDiv(reward2, risk) ELSE Zero
      rr3 == IF RatPos(risk) THEN RatDiv(reward3, risk) ELSE Zero
  IN  [entry |-> Round4(entry), tp1 |-> Round4(tp1), tp2 |-> Round4(tp2),
       tp3 |-> Round4(tp3), sl |-> Round4(sl), setup_type |-> setup_type,
       risk_amount |-> Round4(risk), reward1 |-> Round4(reward1),
       reward2 |-> Round4(reward2), reward3 |-> Round4(reward3),
       risk_reward_1 |-> Round2(rr1), risk_reward_2 |-> Round2(rr2),
       risk_reward_3 |-> Round2(rr3)]

\* FibonacciDetector.calculate_trading_levels (fibonacci_monitors): prices in
\* ticks, risk/reward ratios in hundredths
calculate_trading_levels(fib_levels, current_price, setup_type, atr) ==
  LET entry == Int2Rat(current_price)
      tp1 == fib_levels["0.5"]
      tp2 == fib_levels["0.382"]
      tp3 == fib_levels["0.236"]
      sl_base == fib_levels["0.786"]
      sl == IF setup_type = "LONG"
            THEN IF Truthy(atr)
                 THEN RatSub(sl_base, RatMul(Int2Rat(atr[1]), <<1, 2>>))
                 ELSE RatMul(sl_base, <<199, 200>>)
            ELSE IF Truthy(atr)
                 THEN RatAdd(sl_base, RatMul(Int2Rat(atr[1]), <<1, 2>>))
                 ELSE RatMul(sl_base, <<201, 200>>)
      risk == RatAbs(RatSub(entry, sl))
      reward1 == RatAbs(RatSub(tp1, entry))
      reward2 == RatAbs(RatSub(tp2, entry))
      reward3 == RatAbs(RatSub(tp3, entry))
      rr1 == IF RatPos(risk) THEN RatDiv(reward1, risk) ELSE Zero
      rr2 == IF RatPos(risk) THEN RatDiv(reward2, risk) ELSE Zero
      rr3 == IF RatPos(risk) THEN RatDiv(reward3, risk) ELSE Zero
  IN  [entry |-> Round4(entry), tp1 |-> Round4(tp1), tp2 |-> Round4(tp2),
       tp3 |-> Round4(tp3), sl |-> Round4(sl), setup_type |-> setup_type,
       risk_amount |-> Round4(risk), reward1 |-> Round4(reward1),
       reward2 |-> Round4(reward2), reward3 |-> Round4(reward3),
       risk_reward_1 |-> Round2(rr1), risk_reward_2 |-> Round2(rr2),
       risk_reward_3 |-> Round2(rr3)]

\* FibonacciDetector.calculate_trading_levels (root detector): no rounding,
\* the direction read off the price
calculate_trading_levels_root(fib_levels, current_price) ==
  IF RatLe(Int2Rat(current_price), fib_levels["0.618"])
  THEN [entry |-> Int2Rat(current_price), tp1 |-> fib_levels["0.5"],
        tp2 |-> fib_levels["0.382"], tp3 |-> fib_levels["0.236"],
        sl |-> fib_levels["0.786"]]
  ELSE [entry |-> Int2Rat(current_price), tp1 |-> fib_levels["0.786"],
        tp2 |-> fib_levels["1.0"],
        tp3 |-> RatAdd(fib_levels["1.0"],
                       RatSub(fib_levels["1.0"], fib_levels["0.786"])),
        sl |-> fib_levels["0.5"]]

\* step 12 of detect_618_retracement: min_rr = 1.5 against the rounded ratio
min_rr == <<3, 2>>
RiskRewardRejected(trading_levels) ==
  RatLt(<<trading_levels.risk_reward_1, 100>>, min_rr)

\* what detect_618_retracement returns and the line it logs on the way out
Rejected(log) == [value |-> "None", log |-> log]

\* steps 7-8: the margin and the distance test around the 61.8% level
Margin(current_price, atr, timeframe) ==
  LET margin == IF Truthy(atr) /\ atr[1] > 0
                THEN RatMin(<<1, 500>>, Rat(atr[1], current_price))
                ELSE <<1, 1000>>
  IN  IF timeframe \in {"1m", "5m", "15m"}
      THEN RatMax(margin, <<3, 2000>>)
      ELSE margin

OutsideOrOnTolerance(current_price, fib_618, base_margin) ==
  RatLe(RatMul(fib_618, base_margin),
        RatAbs(RatSub(Int2Rat(current_price), fib_618)))

OutsideTolerance(current_price, fib_618, base_margin) ==
  RatLt(RatMul(fib_618, base_margin),
        RatAbs(RatSub(Int2Rat(current_price), fib_618)))

\* FibonacciDetector.detect_618_retracement over what it reads from the
\* market data m: the number of bars, whether pivots were found, the two
\* swing prices, the trend of identify_trend_structure, the last close and
\* ATR.  Step 9 reads the local setup_type, which no statement of the
\* function assigns: the NameError is caught by the handler of the function.
detect_618_retracement(m) ==
  LET move_percent ==
        RatMul(RatDiv(RatAbs(RatSub(Int2Rat(m.swing_high), Int2Rat(m.swing_low))),
                      Int2Rat(m.swing_low)), <<100, 1>>)
      fib_levels == calculate_fibonacci_levels(m.swing_high, m.swing_low, m.trend)
      fib_618 == fib_levels["0.618"]
      base_margin == Margin(m.current_price, m.atr, m.timeframe)
  IN  IF m.bars < MinDataBars THEN Rejected("Insufficient data")
      ELSE IF ~m.has_pivots THEN Rejected("No valid pivot points found")
      ELSE IF RatLt(move_percent, m.min_move_percent)
        THEN Rejected("Move size below minimum")
      ELSE IF OutsideTolerance(m.current_price, fib_618, base_margin)
        THEN Rejected("Price not at 61.8% level")
      ELSE Rejected("Error detecting 61.8% retracement")

\* --- inputs ---
UnitSwings == {<<hl[1] * TicksPerUnit, hl[2] * TicksPerUnit>> : hl \in SwingPairs}
UnitPrices == {k * TicksPerUnit : k \in 1..MaxSwing}
AtrChoices == {None, Some(0), Some(TicksPerUnit)}

TradingArgs(h, l, trend, price, setup_type, atr) ==
  [swing_high |-> h, swing_low |-> l, trend |-> trend,
   current_price |-> price, setup_type |-> setup_type, atr |-> atr]

GenericTradingArgs ==
  {TradingArgs(hl[1], hl[2], trend, price, setup_type, atr) :
     hl \in UnitSwings, trend \in {"UPTREND", "DOWNTREND"},
     price \in UnitPrices, setup_type \in SetupTypes, atr \in AtrChoices}

\* the scenario of spec section 8: low 100, high 120, up trend, price 107.56
ScenarioHigh == 120 * TicksPerUnit
ScenarioLow == 100 * TicksPerUnit
ScenarioPrice == 107 * TicksPerUnit + 5600
ScenarioTradingArgs ==
  TradingArgs(ScenarioHigh, ScenarioLow, "UPTREND", ScenarioPrice, "LONG", None)

\* closes around the price whose reward/risk is exactly 3/2: swing 1..2 units,
\* up trend, LONG, ATR 0.028 (stop 1.2000, tp1 1.5000), and the stop itself
GateTradingArgs ==
  {TradingArgs(2 * TicksPerUnit, TicksPerUnit, "UPTREND", price, "LONG", Some(280)) :
     price \in {12000} \cup {13200 + k : k \in -GateSpan..GateSpan}}

TradingCall ==
  /\ last.op = "init"
  /\ \E a \in GenericTradingArgs \cup {ScenarioTradingArgs} \cup GateTradingArgs :
       /\ last' = [op |-> "calculate_trading_levels", arg |-> a,
                  ret |-> calculate_trading_levels(
                            calculate_fibonacci_levels(a.swing_high, a.swing_low, a.trend),
                            a.current_price, a.setup_type, a.atr)]
       /\ UNCHANGED <<positions, stats, clock>>

TradingRootCall ==
  /\ last.op = "init"
  /\ \E hl \in UnitSwings, price \in UnitPrices :
       /\ last' = [op |-> "calculate_trading_levels_root",
                  arg |-> TradingArgs(hl[1], hl[2], "none", price, "none", None),
                  ret |-> calculate_trading_levels_root(
                            calculate_fibonacci_levels_root(hl[1], hl[2]), price)]
       /\ UNCHANGED <<positions, stats, clock>>

PriceOffsets == {k * 25 : k \in -MaxOffset..MaxOffset}
DefaultMinMovePercent == <<1, 1>>

Market(bars, has_pivots, h, l, trend, price, atr, timeframe) ==
  [bars |-> bars, has_pivots |-> has_pivots, swing_high |-> h, swing_low |-> l,
   trend |-> trend, current_price |-> price, atr |-> atr,
   timeframe |-> timeframe, min_move_percent |-> DefaultMinMovePercent]

GenericMarkets ==
  {Market(bars, has_pivots, hl[1], hl[2], trend,
          Round(calculate_fibonacci_levels(hl[1], hl[2], trend)["0.618"]) + off,
          atr, timeframe) :
     bars \in {MinDataBars - 1, MinDataBars}, has_pivots \in BOOLEAN,
     hl \in UnitSwings, trend \in {"UPTREND", "DOWNTREND", "SIDEWAYS"},
     off \in PriceOffsets, atr \in AtrChoices, timeframe \in {"1h", "5m"}}

ScenarioMarkets ==
  {Market(bars, TRUE, ScenarioHigh, ScenarioLow, "UPTREND", ScenarioPrice, None, "1h") :
     bars \in {11, MinDataBars}}

DetectCall ==
  /\ last.op = "init"
  /\ \E m \in GenericMarkets \cup ScenarioMarkets :
       /\ last' = [op |-> "detect_618_retracement", arg |-> m,
                  ret |-> detect_618_retracement(m)]
       /\ UNCHANGED <<positions, stats, clock>>

NextDetector == TradingCall \/ TradingRootCall \/ DetectCall

SpecDetector == Init /\ [][NextDetector]_vars

ArgLevels == calculate_fibonacci_levels(last.arg.swing_high, last.arg.swing_low, last.arg.trend)
ArgLevelsRoot == calculate_fibonacci_levels_root(last.arg.swing_high, last.arg.swing_low)
IsScenarioDetect == last.op = "detect_618_retracement" /\ last.arg \in ScenarioMarkets
IsScenarioLevels == last.op = "calculate_trading_levels" /\ last.arg = ScenarioTradingArgs

NearestTick(n, x) == 2 * Abs(n * x[2] - x[1]) <= x[2]

\* C12 (as stated): for LONG and SHORT alike entry = current price, tp1 =
\* level[0.5], tp2 = level[0.382], tp3 = level[0.236] and stop_loss =
\* level[0.786], each exactly the level it is taken from.
C12_LevelsOnFib ==
  /\ last.op = "calculate_trading_levels" =>
       /\ last.ret.entry = last.arg.current_price
       /\ Int2Rat(last.ret.tp1) = ArgLevels["0.5"]
       /\ Int2Rat(last.ret.tp2) = ArgLevels["0.382"]
       /\ Int2Rat(last.ret.tp3) = ArgLevels["0.236"]
       /\ Int2Rat(last.ret.sl) = ArgLevels["0.786"]
  /\ last.op = "calculate_trading_levels_root" =>
       /\ last.ret.entry = Int2Rat(last.arg.current_price)
       /\ last.ret.tp1 = ArgLevelsRoot["0.5"]
       /\ last.ret.tp2 = ArgLevelsRoot["0.382"]
       /\ last.ret.tp3 = ArgLevelsRoot["0.236"]
       /\ last.ret.sl = ArgLevelsRoot["0.786"]

\* the stop of the monitors' detector: the 78.6% level pushed away from the
\* trade by half an ATR, or by 0.5% of itself when there is no ATR
BufferedStop(level, setup_type, atr) ==
  LET away == IF setup_type = "LONG" THEN -1 ELSE 1 IN
  IF atr # None /\ atr[1] # 0
  THEN RatAdd(level, Rat(away * atr[1], 2))
  ELSE RatAdd(level, RatMul(level, Rat(away, 200)))

\* C12 (amended): in the monitors' detector, for LONG and SHORT alike, entry
\* = current price, tp1, tp2, tp3 = level[0.5], level[0.382], level[0.236],
\* each rounded to 4 decimals, and stop_loss is level[0.786] moved away from
\* the trade by a buffer (0.5% of the level, or half the ATR), rounded to 4
\* decimals.  In the root detector the levels are exact: for a price at or
\* below level[0.618] tp1, tp2, tp3 = level[0.5], level[0.382], level[0.236]
\* and stop_loss = level[0.786]; above it tp1 = level[0.786], tp2 =
\* level[1.0], tp3 = 2 * level[1.0] - level[0.786], stop_loss = level[0.5].
C12_LevelsRoundedStopBuffered ==
  /\ last.op = "calculate_trading_levels" =>
       /\ last.ret.entry = last.arg.current_price
       /\ NearestTick(last.ret.tp1, ArgLevels["0.5"])
       /\ NearestTick(last.ret.tp2, ArgLevels["0.382"])
       /\ NearestTick(last.ret.tp3, ArgLevels["0.236"])
       /\ NearestTick(last.ret.sl,
                      BufferedStop(ArgLevels["0.786"], last.arg.setup_type, last.arg.atr))
  /\ last.op = "calculate_trading_levels_root" =>
       /\ last.ret.entry = Int2Rat(last.arg.current_price)
       /\ RatLe(last.ret.entry, ArgLevelsRoot["0.618"]) =>
            /\ last.ret.tp1 = ArgLevelsRoot["0.5"]
            /\ last.ret.tp2 = ArgLevelsRoot["0.382"]
            /\ last.ret.tp3 = ArgLevelsRoot["0.236"]
            /\ last.ret.sl = ArgLevelsRoot["0.786"]
       /\ ~RatLe(last.ret.entry, ArgLevelsRoot["0.618"]) =>
            /\ last.ret.tp1 = ArgLevelsRoot["0.786"]
            /\ last.ret.tp2 = ArgLevelsRoot["1.0"]
            /\ last.ret.tp3 = RatSub(RatMul(<<2, 1>>, ArgLevelsRoot["1.0"]),
                                     ArgLevelsRoot["0.786"])
            /\ last.ret.sl = ArgLevelsRoot["0.5"]

C12_Witness ==
  /\ last.op = "calculate_trading_levels"
  /\ last.arg.setup_type = "SHORT"
  /\ last.arg.atr = None
  /\ last.arg.swing_high > last.arg.swing_low
  /\ RatLt(ArgLevels["0.786"], Int2Rat(last.ret.sl))

\* C20: a setup whose reward/risk (reward = |tp1 - entry|, risk = |entry -
\* stop_loss|) is exactly the minimum is accepted, every setup whose ratio is
\* strictly below the minimum is rejected, and one with risk = 0 is rejected.
C20_GateOnExactRatio ==
  last.op = "calculate_trading_levels" =>
    LET reward == Abs(last.ret.tp1 - last.ret.entry)
        risk == Abs(last.ret.entry - last.ret.sl)
        ratio == Rat(reward, risk)
    IN  /\ risk = 0 => RiskRewardRejected(last.ret)
        /\ (risk > 0 /\ ratio = min_rr) => ~RiskRewardRejected(last.ret)
        /\ (risk > 0 /\ RatLt(ratio, min_rr)) => RiskRewardRejected(last.ret)

\* ----------------------------------------------------------------------
\* Swing detection (root detector).  A data frame is a sequence of bars;
\* bar i of the model is the row with index i - 1 of the frame.
\* ----------------------------------------------------------------------
MaxBars == 3

\* a minimum move of 1%
LooseMovePercent == <<1, 100>>

\* config.MIN_MOVE_PERCENT = 0.03
MIN_MOVE_PERCENT == <<3, 100>>

\* Series.idxmax / Series.idxmin over the rows S: the first row that holds
\* the extreme value
idxmax(df, S) ==
  CHOOSE i \in S : \A j \in S : \/ df[j].high < df[i].high
                                \/ df[j].high = df[i].high /\ i <= j
idxmin(df, S) ==
  CHOOSE i \in S : \A j \in S : \/ df[j].low > df[i].low
                                \/ df[j].low = df[i].low /\ i <= j

\* df.tail(lookback)
tail(df, lookback) == (Len(df) - lookback + 1)..Len(df)

\* detect_swing_points re-anchoring the high when it comes before the low
DetectSwingReanchorWhenBefore(df, lookback) ==
  IF Len(df) < lookback THEN <<None, None>>
  ELSE
    LET recent_data == tail(df, lookback)
        first_high_idx == idxmax(df, recent_data)
        swing_low_idx == idxmin(df, recent_data)
        swing_low_price == df[swing_low_idx].low
        swing_high_idx ==
          IF first_high_idx < swing_low_idx
          THEN idxmax(df, {i \in recent_data : i <= swing_low_idx})
          ELSE first_high_idx
        swing_high_price == df[swing_high_idx].high
        move_percent == Rat(Abs(swing_high_price - swing_low_price), swing_low_price)
    IN  IF RatLt(move_percent, MIN_MOVE_PERCENT) THEN <<None, None>>
        ELSE <<Some(swing_high_idx), Some(swing_low_idx)>>

\* FibonacciDetector.detect_swing_points (root detector)
detect_swing_points(df, lookback) ==
  IF Len(df) < lookback THEN <<None, None>>
  ELSE
    LET recent_data == tail(df, lookback)
        first_high_idx == idxmax(df, recent_data)
        swing_low_idx == idxmin(df, recent_data)
        swing_low_price == df[swing_low_idx].low
        swing_high_idx ==
          IF first_high_idx > swing_low_idx
          THEN idxmax(df, {i \in recent_data : i <= swing_low_idx})
          ELSE first_high_idx
        swing_high_price == df[swing_high_idx].high
        move_percent == Rat(Abs(swing_high_price - swing_low_price), swing_low_price)
    IN  IF RatLt(move_percent, MIN_MOVE_PERCENT) THEN <<None, None>>
        ELSE <<Some(swing_high_idx), Some(swing_low_idx)>>

\* --- inputs: bars over four prices, 2%, 10% and 20% above the lowest ---
BarPrices == {100, 102, 110, 120}
Bars == {[high |-> hl[1], low |-> hl[2]] :
           hl \in {p \in BarPrices \X BarPrices : p[1] >= p[2]}}
Frames == UNION {[1..n -> Bars] : n \in 0..MaxBars}

SwingCall ==
  /\ last.op = "init"
  /\ \E df \in Frames, lookback \in 1..MaxBars :
       /\ last' = [op |-> "detect_swing_points",
                  arg |-> [df |-> df, lookback |-> lookback],
                  ret |-> detect_swing_points(df, lookback)]
       /\ UNCHANGED <<positions, stats, clock>>

NextSwing == SwingCall

SpecSwing == Init /\ [][NextSwing]_vars

IsSwingCall == last.op = "detect_swing_points"
NoSwing == <<None, None>>
Df == last.arg.df
InWindow == (Len(Df) - last.arg.lookback + 1)..Len(Df)
HasWindow == Len(Df) >= last.arg.lookback

\* the earliest bar of the window with the highest high, the earliest with
\* the lowest low, and the earliest highest bar up to the lowest one
MaxHighBar ==
  CHOOSE i \in InWindow :
    /\ \A j \in InWindow : Df[j].high <= Df[i].high
    /\ \A j \in InWindow : j < i => Df[j].high < Df[i].high
MinLowBar ==
  CHOOSE i \in InWindow :
    /\ \A j \in InWindow : Df[j].low >= Df[i].low
    /\ \A j \in InWindow : j < i => Df[j].low > Df[i].low
PriorPeakBar ==
  CHOOSE i \in InWindow :
    /\ i <= MinLowBar
    /\ \A j \in InWindow : j <= MinLowBar => Df[j].high <= Df[i].high
    /\ \A j \in InWindow : j < i => Df[j].high < Df[i].high

\* 100 * |high - low| >= 3 * low: the move from bar i's high to bar j's low
\* reaches the minimum move fraction 0.03
MoveReached(i, j) == 100 * Abs(Df[i].high - Df[j].low) >= 3 * Df[j].low

C17_DistinctBars ==
  (IsSwingCall /\ last.ret # NoSwing) =>
    /\ Df[last.ret[1][1]].high >= Df[last.ret[2][1]].low
    /\ last.ret[1][1] # last.ret[2][1]

\* C18: no swing is returned when, after the decline from the swing high to
\* the swing low, a later bar of the window trades above that swing high;
\* both bars are returned when price stayed at or below it since the low.
BrokenAfterLow ==
  \E k \in InWindow : k > MinLowBar /\ Df[k].high > Df[PriorPeakBar].high
C18_BrokenPatternRejected ==
  (IsSwingCall /\ HasWindow /\ PriorPeakBar < MinLowBar
     /\ MoveReached(PriorPeakBar, MinLowBar)) =>
    /\ BrokenAfterLow => last.ret = NoSwing
    /\ ~BrokenAfterLow => last.ret = <<Some(PriorPeakBar), Some(MinLowBar)>>

\* C19: no swing is returned exactly when the series has fewer than lookback
\* bars or the move fraction of the chosen pair is below the minimum 0.03;
\* otherwise a swing high and a swing low inside the last lookback bars.
ChosenHighBar == IF MaxHighBar > MinLowBar THEN PriorPeakBar ELSE MaxHighBar
MARGIN == <<1, 500>>

\* FibonacciDetector.check_618_retracement (root detector)
check_618_retracement(current_price, fib_levels) ==
  LET target_level == fib_levels["0.618"]
      tolerance == RatMul(target_level, MARGIN)
      lower_bound == RatSub(target_level, tolerance)
      upper_bound == RatAdd(target_level, tolerance)
  IN  /\ RatLe(lower_bound, Int2Rat(current_price))
      /\ RatLe(Int2Rat(current_price), upper_bound)

\* swings whose 61.8% level is a whole multiple of 500 ticks, so that the
\* edge of the tolerance band falls on a tick: high = 500 n + 309 m, low =
\* high - 500 m, level = 500 n
LevelSwings ==
  {<<500 * n + 309 * m, 500 * n - 191 * m>> : n \in 1..MaxSwing, m \in 1..2}
NearOffsets == -(MaxSwing + 1)..(MaxSwing + 1)

ToleranceRootCall ==
  /\ last.op = "init"
  /\ \E hl \in LevelSwings, off \in NearOffsets :
       LET level == Round(calculate_fibonacci_levels_root(hl[1], hl[2])["0.618"]) IN
       /\ last' = [op |-> "check_618_retracement",
                  arg |-> TradingArgs(hl[1], hl[2], "none", level + off, "none", None),
                  ret |-> check_618_retracement(
                            level + off, calculate_fibonacci_levels_root(hl[1], hl[2]))]
       /\ UNCHANGED <<positions, stats, clock>>

ToleranceMarkets ==
  {Market(MinDataBars, TRUE, hl[1], hl[2], trend,
          Round(calculate_fibonacci_levels(hl[1], hl[2], trend)["0.618"]) + off,
          atr, timeframe) :
     hl \in LevelSwings, trend \in {"UPTREND", "SIDEWAYS"}, off \in NearOffsets,
     atr \in AtrChoices \cup {Some(1)}, timeframe \in {"1h", "5m"}}

ToleranceDetectCall ==
  /\ last.op = "init"
  /\ \E m \in ToleranceMarkets :
       /\ last' = [op |-> "detect_618_retracement", arg |-> m,
                  ret |-> detect_618_retracement(m)]
       /\ UNCHANGED <<positions, stats, clock>>

NextTolerance == ToleranceRootCall \/ ToleranceDetectCall

SpecTolerance == Init /\ [][NextTolerance]_vars

\* |price - level| <= level * a / b, for level = n / d
WithinBand(price, level, margin) ==
  margin[2] * Abs(price * level[2] - level[1]) <= margin[1] * level[1]
OnBandEdge(price, level, margin) ==
  margin[2] * Abs(price * level[2] - level[1]) = margin[1] * level[1]

ReachedToleranceTest ==
  /\ last.op = "detect_618_retracement"
  /\ last.ret.log \notin {"Insufficient data", "No valid pivot points found",
                          "Move size below minimum"}

\* C21: a price counts as being at the 61.8% level exactly when |price -
\* level[0.618]| <= tolerance = level[0.618] * margin; the two edges of the
\* band are accepted and every price farther away is rejected.
C21_AtLevelIffWithinTolerance ==
  /\ last.op = "check_618_retracement" =>
       (last.ret <=> WithinBand(last.arg.current_price, ArgLevelsRoot["0.618"],
                                <<2, 1000>>))
  /\ ReachedToleranceTest =>
       (last.ret.log # "Price not at 61.8% level" <=>
          WithinBand(last.arg.current_price, ArgLevels["0.618"],
                     Margin(last.arg.current_price, last.arg.atr, last.arg.timeframe)))

C21_Witness ==
  /\ ReachedToleranceTest
  /\ last.arg.current_price # Round(ArgLevels["0.618"])
  /\ OnBandEdge(last.arg.current_price, ArgLevels["0.618"],
                Margin(last.arg.current_price, last.arg.atr, last.arg.timeframe))
  /\ last.ret.log # "Price not at 61.8% level"

\* ----------------------------------------------------------------------
\* Pattern validation (fibonacci_monitors detector).
\* ----------------------------------------------------------------------
\* max_age_hours.get(data.attrs.get('timeframe', '1h'), 168)
max_age_hours(timeframe) ==
  CASE timeframe = "1m" -> 4
    [] timeframe = "5m" -> 12
    [] timeframe = "15m" -> 48
    [] timeframe = "1h" -> 168
    [] timeframe = "4h" -> 720
    [] timeframe = "1d" -> 2160
    [] OTHER -> 168

\* _validate_fibonacci_pattern with a buffer of 1% around the swing
ValidatePatternWideBuffer(v) ==
  IF (IF v.swing_age_high >= v.swing_age_low THEN v.swing_age_high ELSE v.swing_age_low)
       > max_age_hours(v.timeframe)
  THEN FALSE
  ELSE IF v.setup_type = "LONG" /\ 100 * v.current_price < 99 * v.swing_low
  THEN FALSE
  ELSE IF v.setup_type # "LONG" /\ 100 * v.current_price > 101 * v.swing_high
  THEN FALSE
  ELSE IF v.setup_type = "LONG" /\ v.red_candles > 8
  THEN FALSE
  ELSE IF v.setup_type # "LONG" /\ v.green_candles > 8
  THEN FALSE
  ELSE TRUE

\* FibonacciDetector._validate_fibonacci_pattern over what it reads: the age
\* in hours of the two swings, the timeframe attribute of the data, the two
\* swing prices, the current price, the setup type and the number of red
\* and of green candles among the last 10
validate_fibonacci_pattern(v) ==
  IF (IF v.swing_age_high >= v.swing_age_low THEN v.swing_age_high ELSE v.swing_age_low)
       > max_age_hours(v.timeframe)
  THEN FALSE
  ELSE IF v.setup_type = "LONG"
            /\ RatLt(Int2Rat(v.current_price), RatMul(Int2Rat(v.swing_low), <<199, 200>>))
  THEN FALSE
  ELSE IF v.setup_type # "LONG"
            /\ RatLt(RatMul(Int2Rat(v.swing_high), <<201, 200>>), Int2Rat(v.current_price))
  THEN FALSE
  ELSE IF v.setup_type = "LONG" /\ v.red_candles > 8
  THEN FALSE
  ELSE IF v.setup_type # "LONG" /\ v.green_candles > 8
  THEN FALSE
  ELSE TRUE

\* --- inputs: swing low 200 k ticks and swing high 200 (k + 1), prices next
\* to low * 0.995 = 199 k and to high * 1.005 = 201 (k + 1), and at the low ---
PatternPrice(k, which) ==
  <<199 * k - 1, 199 * k, 200 * k, 201 * (k + 1), 201 * (k + 1) + 1>>[which]

PatternInputs ==
  {[swing_age_high |-> ah, swing_age_low |-> al, timeframe |-> tf,
    swing_high |-> 200 * (k + 1), swing_low |-> 200 * k,
    current_price |-> PatternPrice(k, which), setup_type |-> st,
    red_candles |-> red, green_candles |-> green] :
     ah \in {0, 169}, al \in {0, 168}, tf \in {"1h", "1m"}, k \in 1..MaxSwing,
     which \in 1..5,
     st \in SetupTypes, red \in {8, 9}, green \in {8, 9}}

PatternCall ==
  /\ last.op = "init"
  /\ \E v \in PatternInputs :
       /\ last' = [op |-> "_validate_fibonacci_pattern", arg |-> v,
                  ret |-> validate_fibonacci_pattern(v)]
       /\ UNCHANGED <<positions, stats, clock>>

\* detection cycles on the same swings and prices
BrokenMarkets ==
  {Market(MinDataBars, TRUE, 200 * (k + 1), 200 * k, trend,
          PatternPrice(k, which), None, "1h") :
     k \in 1..MaxSwing, trend \in {"UPTREND", "DOWNTREND"},
     which \in 1..5}

PatternDetectCall ==
  /\ last.op = "init"
  /\ \E m \in BrokenMarkets :
       /\ last' = [op |-> "detect_618_retracement", arg |-> m,
                  ret |-> detect_618_retracement(m)]
       /\ UNCHANGED <<positions, stats, clock>>

NextPattern == PatternCall \/ PatternDetectCall

SpecPattern == Init /\ [][NextPattern]_vars

LongBroken == 1000 * last.arg.current_price < 995 * last.arg.swing_low
ShortBroken == 1000 * last.arg.current_price > 1005 * last.arg.swing_high

StatsResultFraction ==
  [total_trades |-> total_trades, win_count |-> win_count, loss_count |-> loss_count,
   win_rate |-> IF total_trades > 0 THEN Rat(win_count, total_trades) ELSE Zero,
   total_r |-> total_r,
   avg_r |-> IF total_trades > 0 THEN RatDiv(total_r, Int2Rat(total_trades)) ELSE Zero,
   active_positions |-> Cardinality(get_active_positions),
   pending_positions |-> Cardinality(get_pending_positions)]

\* the dict get_position_stats returns
StatsResult ==
  [total_trades |-> total_trades, win_count |-> win_count, loss_count |-> loss_count,
   win_rate |-> IF total_trades > 0
                THEN RatMul(Rat(win_count, total_trades), <<100, 1>>) ELSE Zero,
   total_r |-> total_r,
   avg_r |-> IF total_trades > 0 THEN RatDiv(total_r, Int2Rat(total_trades)) ELSE Zero,
   active_positions |-> Cardinality(get_active_positions),
   pending_positions |-> Cardinality(get_pending_positions)]

get_position_stats ==
  /\ last' = [op |-> "get_position_stats", ret |-> StatsResult]
  /\ UNCHANGED <<positions, stats, clock>>

\* one position, every entry and stop, with the statistics read in between
NextStats ==
  \/ OpenFirst(PnlSetups)
  \/ Activate
  \/ Close
  \/ get_position_stats
  \/ Tick

SpecStats == Init /\ [][NextStats]_vars

\* C23 (as stated): win_rate = win_count / total_trades and avg_r = total_r /
\* total_trades, both 0 when total_trades is 0.
C23_WinRateIsFraction ==
  [][Did("get_position_stats") =>
       IF total_trades = 0
       THEN last'.ret.win_rate = Zero /\ last'.ret.avg_r = Zero
       ELSE /\ last'.ret.win_rate[1] * total_trades = win_count * last'.ret.win_rate[2]
            /\ last'.ret.avg_r[1] * total_r[2] * total_trades
                 = total_r[1] * last'.ret.avg_r[2]]_vars

\* C23 (amended): win_rate = win_count / total_trades * 100, a percentage,
\* and avg_r = total_r / total_trades; both are 0 when total_trades is 0.
C23_WinRateIsPercentage ==
  [][Did("get_position_stats") =>
       IF total_trades = 0
       THEN last'.ret.win_rate = Zero /\ last'.ret.avg_r = Zero
       ELSE /\ last'.ret.win_rate[1] * total_trades
                 = 100 * win_count * last'.ret.win_rate[2]
            /\ last'.ret.avg_r[1] * total_r[2] * total_trades
                 = total_r[1] * last'.ret.avg_r[2]]_vars

C23_Witness ==
  /\ last.op = "get_position_stats"
  /\ total_trades = 2
  /\ win_count = 1
  /\ last.ret.win_rate = <<50, 1>>
  /\ last.ret.avg_r # Zero

\* ---- position monitoring (enhanced_mega_monitor.py) ----

\* monitor_active_positions lines 149-150
symbol_active(config) ==
  {i \in get_active_positions : positions[i].symbol = config.symbol}

\* a close that records the exit and counts it but leaves the status as it was
CloseEffectKeepsStatus(position, exit_price, exit_reason) ==
  LET marked == [position EXCEPT
                   !.exit_time = Some(now),
                   !.exit_price = Some(exit_price),
                   !.exit_reason = exit_reason]
  IN IF marked.entry_price = 0
     THEN [position |-> marked, counted |-> FALSE, r |-> Zero]
     ELSE LET pr == ClosePnl(marked, exit_price)
              r == RMultiple(pr[1], pr[2])
          IN [position |-> [marked EXCEPT !.pnl = Some(pr[1]),
                                          !.r_multiple = Some(r)],
              counted |-> TRUE, r |-> r]

\* what close_position leaves in the store for `position`, whether the close
\* was counted, and its r_multiple
CloseEffect(position, exit_price, exit_reason) ==
  LET marked == [position EXCEPT
                   !.status = "CLOSED", !.exit_time = Some(now),
                   !.exit_price = Some(exit_price),
                   !.exit_reason = exit_reason]
  IN IF marked.entry_price = 0
     THEN [position |-> marked, counted |-> FALSE, r |-> Zero]
     ELSE LET pr == ClosePnl(marked, exit_price)
              r == RMultiple(pr[1], pr[2])
          IN [position |-> [marked EXCEPT !.pnl = Some(pr[1]),
                                          !.r_multiple = Some(r)],
              counted |-> TRUE, r |-> r]

\* total_r after the closes of the positions in S
RECURSIVE SumR(_, _)
SumR(S, effect) ==
  IF S = {} THEN Zero
  ELSE LET i == CHOOSE x \in S : TRUE
       IN RatAdd(effect[i].r, SumR(S \ {i}, effect))

\* EnhancedSingleMonitor.monitor_active_positions: one scheduled job, run to
\* its end by schedule.run_pending() on the only thread of the program
monitor_active_positions(config, df_empty, current_price) ==
  /\ UNCHANGED clock
  /\ IF df_empty
     THEN /\ last' = [op |-> "monitor_active_positions",
                      ret |-> [monitor |-> config.name, seen |-> {}, closed |-> {}]]
          /\ UNCHANGED <<positions, stats>>
     ELSE LET seen == symbol_active(config)
              closing == {i \in seen : CheckResult(i, current_price) # "None"}
              effect == [i \in closing |->
                           CloseEffect(positions[i], current_price,
                                       CheckResult(i, current_price))]
              counted == {i \in closing : effect[i].counted}
              wins == {i \in counted : IsWin(effect[i].r)}
          IN /\ last' = [op |-> "monitor_active_positions",
                         ret |-> [monitor |-> config.name, seen |-> seen,
                                  closed |-> closing]]
             /\ positions' = [i \in DOMAIN positions |->
                                IF i \in closing THEN effect[i].position
                                ELSE positions[i]]
             /\ total_r' = RatAdd(total_r, SumR(counted, effect))
             /\ total_trades' = total_trades + Cardinality(counted)
             /\ win_count' = win_count + Cardinality(wins)
             /\ loss_count' = loss_count + Cardinality(counted \ wins)

\* the 30-second job of each monitor
MonitorPass ==
  /\ total_trades < MaxTrades
  /\ \E name \in MonitorNames, df_empty \in BOOLEAN, p \in Prices :
       monitor_active_positions(MonitorConfig(name), df_empty, p)

\* EnhancedMegaMonitor.run: the scheduled jobs run one after another
NextMonitor ==
  \/ Open(NarrowSetups, MaxPositions)
  \/ Activate
  \/ MonitorPass
  \/ Tick

SpecMonitor == Init /\ [][NextMonitor]_vars

C25_FailedCloseChangesNothing ==
  [][Did("close_position") /\ last'.ret = "False" =>
       /\ positions' = positions
       /\ stats' = stats]_vars

\* the gates of detect_618_retracement that are functions of the swing, the
\* price and the ATR pass for the market m with setup type st: enough bars,
\* pivots, move size, price at the 61.8% level, reward/risk
GatesPass(m, st) ==
  LET fib_levels == calculate_fibonacci_levels(m.swing_high, m.swing_low, m.trend)
  IN  /\ detect_618_retracement(m).log
           \notin {"Insufficient data", "No valid pivot points found",
                   "Move size below minimum", "Price not at 61.8% level"}
      /\ ~RiskRewardRejected(calculate_trading_levels(fib_levels, m.current_price,
                                                      st, m.atr))

\* C27: when the price is within tolerance of the 61.8% level and the gates
\* pass for LONG or for SHORT, detect_618_retracement returns a populated
\* setup, not None
C27_DetectionSucceeds ==
  (/\ last.op = "detect_618_retracement"
   /\ \E st \in SetupTypes : GatesPass(last.arg, st))
    => last.ret.value # "None"

\* ---- setup detection jobs (check_setup) ----

\* FibonacciDetector._setup_to_result: the legacy dict handed to the notifier
\* and to open_position, for a setup found on market m with setup type st
\* (the levels of these markets are whole ticks)
setup_to_result(m, st) ==
  LET fib_levels == calculate_fibonacci_levels(m.swing_high, m.swing_low, m.trend)
      trading_levels == calculate_trading_levels(fib_levels, m.current_price, st, m.atr)
  IN  DetectionResult("BTCUSDT", m.timeframe,
                      IF m.trend = "UPTREND" THEN "UP"
                      ELSE IF m.trend = "DOWNTREND" THEN "DOWN" ELSE m.trend,
                      m.current_price, Round(fib_levels["0.618"]),
                      trading_levels.entry, trading_levels.tp1,
                      trading_levels.tp2, trading_levels.tp3,
                      trading_levels.sl, "none")

\* the results a detection that passes its gates hands to check_setup
DetectedSetups ==
  {setup_to_result(m, st) : <<m, st>> \in
     {x \in GenericMarkets \X SetupTypes : GatesPass(x[1], x[2])}}

\* two setups found on the swing 1.0 .. 4.0 on the 1h timeframe with the
\* stop at 2.1420: the close below and above the 61.8% level
SwingSetups ==
  {d \in DetectedSetups : /\ d.timeframe = "1h" /\ d.tp1 = 25000
                             /\ d.sl = 21420 /\ d.current_price # d.fib618}

\* timedelta(minutes=30), in seconds
alert_cooldown == 30 * 60

\* check_setup with the cooldown also over when exactly 30 minutes have passed
CooldownOverOrAt(name) ==
  \/ last_alert_time[name] = None
  \/ now - last_alert_time[name][1] >= alert_cooldown

\* check_setup lines 76-77: no alert yet, or the last one is more than the
\* cooldown ago
CooldownOver(name) ==
  \/ last_alert_time[name] = None
  \/ now - last_alert_time[name][1] > alert_cooldown

\* a position that check_setup opens and leaves PENDING
OpenedPositionPending(d) ==
  LET setup_type == OpenSetupType(d)
      position_id == create_position_id(d.symbol, d.timeframe, setup_type)
  IN  Position(position_id, d.symbol, d.timeframe, setup_type,
               d.entry, d.tp1, d.tp2, d.tp3, d.sl)

\* check_setup lines 96-102: the position after open_position and
\* activate_position
OpenedPosition(d) ==
  LET setup_type == OpenSetupType(d)
      position_id == create_position_id(d.symbol, d.timeframe, setup_type)
  IN  [Position(position_id, d.symbol, d.timeframe, setup_type,
                d.entry, d.tp1, d.tp2, d.tp3, d.sl)
         EXCEPT !.status = "ACTIVE", !.entry_time = Some(now)]

\* what a check_setup call reports: the monitor, how it ended, and the id of
\* the position it opened
CheckOutcome(name, outcome, position_id) ==
  [op |-> "check_setup",
   ret |-> [monitor |-> name, outcome |-> outcome, position_id |-> position_id]]

\* EnhancedSingleMonitor.check_setup: result is None or Some(detection result),
\* send_ok is what notifier.send_alert returns
check_setup(config, result, send_ok) ==
  /\ UNCHANGED <<stats, now>>
  /\ IF result = None
     THEN /\ last' = CheckOutcome(config.name, "no setup", None)
          /\ UNCHANGED <<positions, last_alert_time>>
     ELSE IF ~CooldownOver(config.name)
     THEN /\ last' = CheckOutcome(config.name, "suppressed", None)
          /\ UNCHANGED <<positions, last_alert_time>>
     ELSE IF ~send_ok
     THEN /\ last' = CheckOutcome(config.name, "send failed", None)
          /\ UNCHANGED <<positions, last_alert_time>>
     ELSE /\ last_alert_time' = [last_alert_time EXCEPT ![config.name] = Some(now)]
          /\ IF result[1].missing # "none"
             THEN \* open_position returned None
                  /\ last' = CheckOutcome(config.name, "sent", None)
                  /\ UNCHANGED positions
             ELSE LET position == OpenedPosition(result[1])
                  IN  /\ last' = CheckOutcome(config.name, "sent", Some(position.id))
                      /\ positions' = Store(position.id, position)

\* FibonacciBot.check_setup (main.py) and SingleMonitor.check_setup
\* (mega_monitor.py): the same cooldown, no position manager
bot_check_setup(detected, send_ok) ==
  /\ UNCHANGED <<positions, stats, now>>
  /\ IF ~detected
     THEN /\ last' = CheckOutcome("FibonacciBot", "no setup", None)
          /\ UNCHANGED last_alert_time
     ELSE IF ~CooldownOver("FibonacciBot")
     THEN /\ last' = CheckOutcome("FibonacciBot", "suppressed", None)
          /\ UNCHANGED last_alert_time
     ELSE IF ~send_ok
     THEN /\ last' = CheckOutcome("FibonacciBot", "send failed", None)
          /\ UNCHANGED last_alert_time
     ELSE /\ last' = CheckOutcome("FibonacciBot", "sent", None)
          /\ last_alert_time' = [last_alert_time EXCEPT !["FibonacciBot"] = Some(now)]

\* the number of check intervals a run lasts
MaxChecks == 3

\* check_interval_minutes of the 15-minute monitors
check_interval_minutes == 15

\* the scheduler waits until the setup detection job is due again
Sleep ==
  /\ now < MaxChecks * 60 * check_interval_minutes
  /\ now' = now + 60 * check_interval_minutes
  /\ UNCHANGED <<positions, stats, last, last_alert_time>>

CheckSetup ==
  \E name \in MonitorNames, result \in {None} \cup {Some(d) : d \in SwingSetups},
     send_ok \in BOOLEAN :
    check_setup(MonitorConfig(name), result, send_ok)

BotCheckSetup ==
  \E detected \in BOOLEAN, send_ok \in BOOLEAN : bot_check_setup(detected, send_ok)

NextAlerts == CheckSetup \/ BotCheckSetup \/ Sleep

SpecAlerts == Init /\ [][NextAlerts]_vars

\* C28: check_setup stores or changes a position only in a call whose
\* send_alert returned True, and the position it opened is ACTIVE when the call
\* returns: no position it opened is left PENDING
C28_OpenAfterAlertAndActive ==
  [][Did("check_setup") =>
       /\ positions' # positions => last'.ret.outcome = "sent"
       /\ last'.ret.position_id # None =>
            /\ last'.ret.outcome = "sent"
            /\ last'.ret.position_id[1] \in DOMAIN positions'
            /\ positions'[last'.ret.position_id[1]].status = "ACTIVE"
            /\ positions'[last'.ret.position_id[1]].entry_time = Some(now)
       /\ \A i \in DOMAIN positions' :
            positions'[i].status = "PENDING" =>
              i \in DOMAIN positions /\ positions[i] = positions'[i]]_vars

\* check_setup sent its alert and opened a position, which is ACTIVE
C28_Witness ==
  /\ last.op = "check_setup"
  /\ last.ret.outcome = "sent"
  /\ last.ret.position_id # None
  /\ positions[last.ret.position_id[1]].status = "ACTIVE"
  /\ get_pending_positions = {}

\* some check_setup call of this kind is detecting a setup in this step
Detecting(name) ==
  IF name = "FibonacciBot"
  THEN \E send_ok \in BOOLEAN : bot_check_setup(TRUE, send_ok)
  ELSE \E d \in SwingSetups, send_ok \in BOOLEAN :
         check_setup(MonitorConfig(name), Some(d), send_ok)

\* C29: for one monitor, an alert is sent only when none was sent before or
\* the last sent one is more than 30 minutes ago; last_alert_time becomes the
\* time of the call exactly when send_alert returned True and is otherwise
\* left alone, so after a failed send the next check that detects a setup is
\* not suppressed and attempts the alert again
C29_AlertsMoreThanCooldownApart ==
  [][Did("check_setup") =>
       LET name == last'.ret.monitor IN
       /\ last'.ret.outcome = "sent" =>
            /\ \/ last_alert_time[name] = None
               \/ now - last_alert_time[name][1] > alert_cooldown
            /\ last_alert_time' = [last_alert_time EXCEPT ![name] = Some(now)]
       /\ last'.ret.outcome # "sent" => last_alert_time' = last_alert_time
       /\ (last.op = "check_setup" /\ last.ret.monitor = name
           /\ last.ret.outcome = "send failed" /\ Detecting(name))
            => last'.ret.outcome \in {"sent", "send failed"}]_vars

\* the only monitor that has sent alerts sent its second one, 45 minutes after
\* the one that opened the position of time 0
C29_Witness ==
  /\ last.op = "check_setup"
  /\ last.ret.outcome = "sent"
  /\ now = 3 * 60 * check_interval_minutes
  /\ last_alert_time[last.ret.monitor] = Some(now)
  /\ \A name \in AlertSources \ {last.ret.monitor} : last_alert_time[name] = None
  /\ \E i \in DOMAIN positions :
       /\ positions[i].entry_time = Some(0)
       /\ i[4] = 0

\* ---- a detected setup traded to its exit ----

\* the first detection job of a run that finds a setup and sends its alert
TradeSetup ==
  /\ DOMAIN positions = {}
  /\ \E name \in MonitorNames, d \in DetectedSetups :
       check_setup(MonitorConfig(name), Some(d), TRUE)

\* closes of the last bar at the levels of the stored positions, and one tick
\* either side of them
LevelPrices ==
  UNION {{v - 1, v, v + 1} :
           v \in UNION {{positions[i].entry_price, positions[i].tp1,
                         positions[i].tp2, positions[i].tp3, positions[i].sl} :
                          i \in DOMAIN positions}}

\* the 30-second job at one of these closes
TradePass ==
  /\ get_active_positions # {}
  /\ \E name \in MonitorNames, p \in LevelPrices :
       monitor_active_positions(MonitorConfig(name), FALSE, p)

NextTrades == TradeSetup \/ TradePass

SpecTrades == Init /\ [][NextTrades]_vars

TargetReasons == {"TP1_HIT", "TP2_HIT", "TP3_HIT"}

C30_CancelAvailable ==
  \A i \in get_pending_positions :
    ENABLED (/\ Next
             /\ i \in DOMAIN positions'
             /\ positions'[i].status = "CANCELLED")

====
